---- MODULE Spec2Model ----
(***************************************************************************)
(* Model of the certmagic storage backend on PostgreSQL (caddy.go):        *)
(* the lease lock kept in table certmagic_locks (Storage.Lock/Unlock) and  *)
(* the records kept in table certmagic_data (Storage.Store/Load/Delete).   *)
(*                                                                         *)
(* Every caller is a process that issues one call at a time.  Lock is a    *)
(* READ COMMITTED transaction (BeginTx with nil options) and is modelled   *)
(* statement by statement; the other operations are single autocommit      *)
(* statements and are modelled as one step each.  Any statement may fail   *)
(* (query timeout, cancelled context, lost connection).                    *)
(***************************************************************************)
EXTENDS Integers, Sequences, FiniteSets, TLC

\* ---------------------------------------------------------------- bounds
NumCallers == 2        \* concurrent callers (processes using the store)
MaxTime    == 2        \* the backend clock runs from 0 to MaxTime
MaxSkew    == 1        \* a caller's clock differs from the backend's by at most this
MaxValLen  == 1        \* longest stored value, in bytes
MaxKeyLen  == 2        \* longest key and prefix that List is tried on
MaxRows    == 2        \* most rows of the table that List is tried on

\* ----------------------------------------------------- program constants
LockTimeout == 1       \* Storage.lockTimeout, in ticks of the model clock

Callers == 1..NumCallers
Keys    == {<<"a">>, <<"a", "b">>}
Bytes   == {0, 255}
Values  == UNION {[1..n -> Bytes] : n \in 0..MaxValLen}

\* the histories a behaviour can record (one group of history variables each)
Watches == {"race", "promise", "excl"}

VARIABLES
  now,        \* the backend's clock (CURRENT_TIMESTAMP reads it)
  locks,      \* table certmagic_locks, committed rows: key -> expires
  data,       \* table certmagic_data,  committed rows: key -> [value, modified]
  pc,         \* pc[c]: where caller c is in its current call
  op,         \* op[c]: the operation of the current call
  key,        \* key[c]: its key argument
  txNow,      \* txNow[c]: CURRENT_TIMESTAMP of c's transaction (its start time)
  expires,    \* expires[c]: the local variable `expires` of Lock
  res,        \* res[c]: what the call returned
  got,        \* got[c]: the value Load returned
  \* history variables, read only by the properties
  watch,      \* which group of history variables this behaviour records
  fresh,      \* "race": c's Lock began on a key with no active lease and
              \*   before any Lock of that key now shown as returned
  stampAt,    \* "promise": backend time at which c computed `expires`
  grant,      \* "promise": what last happened to the lease of k, and when
  seen,       \* "promise": what grant[key[c]] promised when c's Lock began;
              \*   "excl": the row c's Unlock found
  owner,      \* "excl": the caller last granted k that has not called Unlock(k)
  paired,     \* "excl": every Unlock(k) so far was called by owner[k]
  lastPut,    \* key -> value of the last successful Store, none after Delete
  deleted,    \* the keys of Keys whose last successful write was a Delete
  \* locals of the calls that the result does not show
  err,        \* err[c]: the local `err` of Exists, which Exists does not return
  recursive,  \* recursive[c]: the argument `recursive` of List
  heap        \* the keys of certmagic_data in the order a sequential scan meets them

vars == <<now, locks, data, pc, op, key, txNow, expires, res, got,
          watch, fresh, stampAt, grant, seen, owner, paired, lastPut, err, recursive, deleted, heap>>

NoKey == <<>>
Empty == [j \in {} |-> 0]   \* the empty table / the empty partial function

\* ------------------------------------------------------------- SQL helpers

\* f with k mapped to v, and f without k (bookkeeping of partial functions)
With(f, k, v) == [j \in (DOMAIN f) \cup {k} |-> IF j = k THEN v ELSE f[j]]
Without(f, k) == [j \in (DOMAIN f) \ {k} |-> f[j]]

\* INSERT INTO certmagic_locks (key, expires) VALUES (k, e)
\*   ON CONFLICT (key) DO UPDATE SET expires = e
UpsertLock(tbl, k, e) ==
  IF k \in DOMAIN tbl THEN [tbl EXCEPT ![k] = e] ELSE With(tbl, k, e)

\* a DELETE that spares a lease that has not expired
DeleteLockIfExpired(tbl, k) ==
  IF k \in DOMAIN tbl /\ tbl[k] > now THEN tbl ELSE Without(tbl, k)

\* a DELETE that matches no row
DeleteNothing(tbl, k) == tbl

\* a DELETE of the leases that has lost its WHERE clause
DeleteAllLocks(tbl, k) == Empty

\* DELETE FROM certmagic_locks WHERE key = k
DeleteLock(tbl, k) == Without(tbl, k)

\* SELECT EXISTS(SELECT 1 FROM certmagic_locks WHERE key = k AND expires > CURRENT_TIMESTAMP)
IsLocked(tbl, k, ts) == k \in DOMAIN tbl /\ tbl[k] > ts

\* a rollback that keeps the transaction's write of (k, e)
RollbackKeepsWrite(tbl, k, e) == UpsertLock(tbl, k, e)

\* tx.Rollback(): the table without the transaction's write of (k, e)
Rollback(tbl, k, e) == tbl

\* a caller's process clock differs from the backend's by some d in Skews
Skews == (0 - MaxSkew)..MaxSkew

\* time.Now() in a process whose clock is d ahead of the backend's
LocalNow(d) == now + d

\* a transaction that has executed its upsert of k and not yet ended holds
\* the row lock (or the unique-index entry) of k
InFlight(c) == pc[c] \in {"check", "stamp", "exec", "commit"}
RowLocked(k) == \E c \in Callers : pc[c] = "commit" /\ key[c] = k

Init ==
  /\ now = 0
  /\ locks = Empty
  /\ data = Empty
  /\ pc = [c \in Callers |-> "idle"]
  /\ op = [c \in Callers |-> "none"]
  /\ key = [c \in Callers |-> NoKey]
  /\ txNow = [c \in Callers |-> 0]
  /\ expires = [c \in Callers |-> 0]
  /\ res = [c \in Callers |-> "none"]
  /\ got = [c \in Callers |-> Empty]
  /\ watch \in Watches
  /\ fresh = [c \in Callers |-> FALSE]
  /\ stampAt = [c \in Callers |-> 0]
  /\ grant = [k \in Keys |-> [st |-> "never", at |-> 0]]
  /\ seen = [c \in Callers |-> "none"]
  /\ owner = [k \in Keys |-> 0]
  /\ paired = TRUE
  /\ lastPut = Empty
  /\ deleted = {}
  /\ err = [c \in Callers |-> "nil"]
  /\ recursive = [c \in Callers |-> FALSE]
  /\ heap = <<>>

\* -------------------------------------------------- history bookkeeping

\* the new value of a history variable of group w, whose old value is old
On(w, new, old) == IF watch = w THEN new ELSE old

\* a lease granted at backend time t, seen at backend time u
Granted(t, u) ==
  IF u < t + LockTimeout THEN [st |-> "held", at |-> t] ELSE [st |-> "expired", at |-> 0]

\* what the history of k promises a Lock(k) that begins now:
\* "never", "released", "expired", or "locked"
Promise(k) == IF grant[k].st = "held" THEN "locked" ELSE grant[k].st

\* caller a changed the committed row of k: what was promised to the other
\* calls in flight on k no longer stands
Disturb(a, k) ==
  [c \in Callers |-> IF c # a /\ InFlight(c) /\ key[c] = k THEN "void" ELSE seen[c]]

\* the row an Unlock(k) finds
Found(k) ==
  IF k \notin DOMAIN locks THEN "absent"
  ELSE IF locks[k] > now THEN "active" ELSE "lapsed"

\* the call of c ends with result r; the transaction's locals are gone
Finish(c, r) ==
  /\ pc' = [pc EXCEPT ![c] = "done"]
  /\ res' = [res EXCEPT ![c] = r]
  /\ txNow' = [txNow EXCEPT ![c] = 0]
  /\ expires' = [expires EXCEPT ![c] = 0]
  /\ stampAt' = [stampAt EXCEPT ![c] = 0]

\* ------------------------------------------------------------ Storage.Lock

\* s.db.BeginTx(ctx, nil): the transaction starts, CURRENT_TIMESTAMP is fixed
Begin(c, k) ==
  /\ pc[c] = "idle"
  /\ pc' = [pc EXCEPT ![c] = "check"]
  /\ op' = [op EXCEPT ![c] = "Lock"]
  /\ key' = [key EXCEPT ![c] = k]
  /\ txNow' = [txNow EXCEPT ![c] = now]
  /\ seen' = On("promise", [seen EXCEPT ![c] = Promise(k)], seen)
  /\ fresh' = On("race", [fresh EXCEPT ![c] =
        /\ ~IsLocked(locks, k, now)
        /\ ~\E d \in Callers : pc[d] = "done" /\ op[d] = "Lock" /\ key[d] = k], fresh)
  /\ UNCHANGED <<now, locks, data, expires, res, got, watch, stampAt, grant, owner,
                 paired, lastPut, err, recursive, deleted, heap>>

\* BeginTx returns an error (no connection, context already done)
BeginFail(c, k) ==
  /\ pc[c] = "idle"
  /\ op' = [op EXCEPT ![c] = "Lock"]
  /\ key' = [key EXCEPT ![c] = k]
  /\ Finish(c, "BeginErr")
  /\ UNCHANGED <<now, locks, data, got, watch, fresh, grant, seen, owner, paired,
                 lastPut, err, recursive, deleted, heap>>

\* the SELECT EXISTS(...) statement and the branch on isLocked
Check(c) ==
  /\ pc[c] = "check"
  /\ IF IsLocked(locks, key[c], txNow[c])
       THEN Finish(c, "Locked")
       ELSE /\ pc' = [pc EXCEPT ![c] = "stamp"]
            /\ txNow' = [txNow EXCEPT ![c] = 0]
            /\ UNCHANGED <<res, expires, stampAt>>
  /\ UNCHANGED <<now, locks, data, op, key, got, watch, fresh, grant, seen, owner,
                 paired, lastPut, err, recursive, deleted, heap>>

\* row.Scan fails (query timeout, context cancelled, connection lost)
CheckFail(c) ==
  /\ pc[c] = "check"
  /\ Finish(c, "ScanErr")
  /\ UNCHANGED <<now, locks, data, op, key, got, watch, fresh, grant, seen, owner,
                 paired, lastPut, err, recursive, deleted, heap>>

\* expires := time.Now().Add(s.lockTimeout)
Stamp(c, d) ==
  /\ pc[c] = "stamp"
  /\ expires' = [expires EXCEPT ![c] = LocalNow(d) + LockTimeout]
  /\ stampAt' = On("promise", [stampAt EXCEPT ![c] = now], stampAt)
  /\ pc' = [pc EXCEPT ![c] = "exec"]
  /\ UNCHANGED <<now, locks, data, op, key, txNow, res, got, watch, fresh, grant,
                 seen, owner, paired, lastPut, err, recursive, deleted, heap>>

\* the INSERT ... ON CONFLICT (key) DO UPDATE statement: it waits while another
\* transaction holds the row, then writes inside this transaction
Exec(c) ==
  /\ pc[c] = "exec"
  /\ ~RowLocked(key[c])
  /\ pc' = [pc EXCEPT ![c] = "commit"]
  /\ UNCHANGED <<now, locks, data, op, key, txNow, expires, res, got, watch, fresh,
                 stampAt, grant, seen, owner, paired, lastPut, err, recursive, deleted, heap>>

\* a statement on a context with no deadline: nothing ends its wait for the row
NoDeadline(c) == FALSE

\* ExecContext fails (the query timeout ends the wait, or any driver error)
ExecFail(c) ==
  /\ pc[c] = "exec"
  /\ Finish(c, "ExecErr")
  /\ UNCHANGED <<now, locks, data, op, key, got, watch, fresh, grant, seen, owner,
                 paired, lastPut, err, recursive, deleted, heap>>

\* tx.Commit() returns nil: the upsert becomes the committed row
Commit(c) ==
  /\ pc[c] = "commit"
  /\ locks' = UpsertLock(locks, key[c], expires[c])
  /\ Finish(c, "ok")
  /\ grant' = On("promise", [grant EXCEPT ![key[c]] = Granted(stampAt[c], now)], grant)
  /\ seen' = On("promise", Disturb(c, key[c]), seen)
  /\ owner' = On("excl", [owner EXCEPT ![key[c]] = c], owner)
  /\ UNCHANGED <<now, data, op, key, got, watch, fresh, paired, lastPut, err, recursive, deleted, heap>>

\* tx.Commit() returns an error: the deferred tx.Rollback() leaves nothing behind
CommitFail(c) ==
  /\ pc[c] = "commit"
  /\ locks' = Rollback(locks, key[c], expires[c])
  /\ Finish(c, "CommitErr")
  /\ UNCHANGED <<now, data, op, key, got, watch, fresh, grant, seen, owner, paired,
                 lastPut, err, recursive, deleted, heap>>

\* ---------------------------------------------------------- Storage.Unlock

\* DELETE FROM certmagic_locks WHERE key = $1, one autocommit statement.  It
\* waits for a transaction that holds a committed row of k; a row that is only
\* inserted and not committed is invisible to it.
Unlock(c, k) ==
  /\ pc[c] = "idle"
  /\ k \in DOMAIN locks => ~RowLocked(k)
  /\ locks' = DeleteLock(locks, k)
  /\ op' = [op EXCEPT ![c] = "Unlock"]
  /\ key' = [key EXCEPT ![c] = k]
  /\ Finish(c, "ok")
  /\ grant' = On("promise", [grant EXCEPT ![k] = [st |-> "released", at |-> 0]], grant)
  /\ seen' = IF watch = "excl" THEN [seen EXCEPT ![c] = Found(k)]
             ELSE On("promise", Disturb(c, k), seen)
  /\ owner' = On("excl", [owner EXCEPT ![k] = IF @ = c THEN 0 ELSE @], owner)
  /\ paired' = On("excl", paired /\ owner[k] = c, paired)
  /\ UNCHANGED <<now, data, got, watch, fresh, lastPut, err, recursive, deleted, heap>>

\* ExecContext of the DELETE fails: the error is returned, no row is removed
UnlockFail(c, k) ==
  /\ pc[c] = "idle"
  /\ op' = [op EXCEPT ![c] = "Unlock"]
  /\ key' = [key EXCEPT ![c] = k]
  /\ Finish(c, "ExecErr")
  /\ owner' = On("excl", [owner EXCEPT ![k] = IF @ = c THEN 0 ELSE @], owner)
  /\ paired' = On("excl", paired /\ owner[k] = c, paired)
  /\ UNCHANGED <<now, locks, data, got, watch, fresh, grant, seen, lastPut, err, recursive, deleted, heap>>

\* ------------------------------------------------------------- environment

\* the caller takes the result and is ready for its next call
Return(c) ==
  /\ pc[c] = "done"
  /\ pc' = [pc EXCEPT ![c] = "idle"]
  /\ op' = [op EXCEPT ![c] = "none"]
  /\ key' = [key EXCEPT ![c] = NoKey]
  /\ res' = [res EXCEPT ![c] = "none"]
  /\ got' = [got EXCEPT ![c] = Empty]
  /\ seen' = [seen EXCEPT ![c] = "none"]
  /\ fresh' = [fresh EXCEPT ![c] = FALSE]
  /\ err' = [err EXCEPT ![c] = "nil"]
  /\ recursive' = [recursive EXCEPT ![c] = FALSE]
  /\ UNCHANGED <<now, locks, data, txNow, expires, watch, stampAt, grant, owner,
                 paired, lastPut, deleted, heap>>

\* time passes on the backend (and with it on every caller's clock)
Tick ==
  /\ now < MaxTime
  /\ now' = now + 1
  /\ grant' = [k \in Keys |->
        IF grant[k].st = "held" THEN Granted(grant[k].at, now + 1) ELSE grant[k]]
  /\ UNCHANGED <<locks, data, pc, op, key, txNow, expires, res, got, watch, fresh,
                 stampAt, seen, owner, paired, lastPut, err, recursive, deleted, heap>>

LockNext ==
  \/ \E c \in Callers, k \in Keys : Begin(c, k)
  \/ \E c \in Callers, k \in Keys : BeginFail(c, k)
  \/ \E c \in Callers : Check(c)
  \/ \E c \in Callers : CheckFail(c)
  \/ \E c \in Callers, d \in Skews : Stamp(c, d)
  \/ \E c \in Callers : Exec(c)
  \/ \E c \in Callers : ExecFail(c)
  \/ \E c \in Callers : Commit(c)
  \/ \E c \in Callers : CommitFail(c)
  \/ \E c \in Callers, k \in Keys : Unlock(c, k)
  \/ \E c \in Callers, k \in Keys : UnlockFail(c, k)
  \/ \E c \in Callers : Return(c)
  \/ Tick

LockSpec == Init /\ [][LockNext]_vars

\* a statement of caller c's Lock transaction returns, with its result or with
\* a failure (every statement runs on a context that ends after queryTimeout)
LockStep(c) ==
  \/ Check(c) \/ CheckFail(c)
  \/ \E d \in Skews : Stamp(c, d)
  \/ Exec(c) \/ ExecFail(c)
  \/ Commit(c) \/ CommitFail(c)

\* the backend is scheduled fairly: a statement that can return does return.
\* Nothing obliges time to pass or any caller to call Unlock.
LiveInit == Init /\ watch = "race"
LiveSpec == LiveInit /\ [][LockNext]_vars /\ \A c \in Callers : WF_vars(LockStep(c))

\* ------------------------------------------------- Storage.Store/Load/Delete

\* an upsert whose conflict branch keeps the stored row
UpsertKeepsOld(tbl, k, v, ts) ==
  IF k \in DOMAIN tbl THEN tbl ELSE With(tbl, k, [value |-> v, modified |-> ts])

\* an upsert whose conflict branch sets the value and leaves modified as it is
UpsertValueOnly(tbl, k, v, ts) ==
  IF k \in DOMAIN tbl
    THEN [tbl EXCEPT ![k] = [value |-> v, modified |-> tbl[k].modified]]
    ELSE With(tbl, k, [value |-> v, modified |-> ts])

\* INSERT INTO certmagic_data (key, value) VALUES (k, v)
\*   ON CONFLICT (key) DO UPDATE SET value = v, modified = CURRENT_TIMESTAMP
\* (an inserted row takes the column default of modified, CURRENT_TIMESTAMP)
UpsertData(tbl, k, v, ts) ==
  IF k \in DOMAIN tbl
    THEN [tbl EXCEPT ![k] = [value |-> v, modified |-> ts]]
    ELSE With(tbl, k, [value |-> v, modified |-> ts])

\* the heap without the row of k
HeapWithout(h, k) == SelectSeq(h, LAMBDA j : j # k)

\* the heap after the upsert of k: a new row goes to the end; an update writes
\* a new version of the row, in the place of the old one or at the end
HeapAfterUpsert(h, k) ==
  IF \E i \in 1..Len(h) : h[i] = k
    THEN {h, Append(HeapWithout(h, k), k)}
    ELSE {Append(h, k)}

\* a DELETE that has lost its WHERE clause
DeleteEveryRow(tbl, k) == Empty

\* DELETE FROM certmagic_data WHERE key = k
DeleteData(tbl, k) == Without(tbl, k)

\* Store(key, value): one upsert statement
Store(c, k, v) ==
  /\ pc[c] = "idle"
  /\ data' = UpsertData(data, k, v, now)
  /\ op' = [op EXCEPT ![c] = "Store"]
  /\ key' = [key EXCEPT ![c] = k]
  /\ Finish(c, "ok")
  /\ lastPut' = With(lastPut, k, [value |-> v, over |-> k \in DOMAIN data, at |-> now])
  /\ deleted' = deleted \ {k}
  /\ heap' \in HeapAfterUpsert(heap, k)
  /\ UNCHANGED <<now, locks, got, watch, fresh, grant, seen, owner, paired, err,
                 recursive>>

\* the upsert fails ("failed exec"): nothing is stored
StoreFail(c, k) ==
  /\ pc[c] = "idle"
  /\ op' = [op EXCEPT ![c] = "Store"]
  /\ key' = [key EXCEPT ![c] = k]
  /\ Finish(c, "ExecErr")
  /\ UNCHANGED <<now, locks, data, got, watch, fresh, grant, seen, owner, paired,
                 lastPut, err, recursive, deleted, heap>>

\* Load(key): SELECT value ... WHERE key = $1; sql.ErrNoRows becomes ErrNotExist
Load(c, k) ==
  /\ pc[c] = "idle"
  /\ op' = [op EXCEPT ![c] = "Load"]
  /\ key' = [key EXCEPT ![c] = k]
  /\ IF k \in DOMAIN data
       THEN got' = [got EXCEPT ![c] = data[k].value] /\ Finish(c, "ok")
       ELSE got' = got /\ Finish(c, "NotFound")
  /\ UNCHANGED <<now, locks, data, watch, fresh, grant, seen, owner, paired, lastPut, err, recursive, deleted, heap>>

\* the query fails otherwise ("failed to query row")
LoadFail(c, k) ==
  /\ pc[c] = "idle"
  /\ op' = [op EXCEPT ![c] = "Load"]
  /\ key' = [key EXCEPT ![c] = k]
  /\ Finish(c, "QueryErr")
  /\ UNCHANGED <<now, locks, data, got, watch, fresh, grant, seen, owner, paired,
                 lastPut, err, recursive, deleted, heap>>

\* Delete(key): one DELETE statement
Delete(c, k) ==
  /\ pc[c] = "idle"
  /\ data' = DeleteData(data, k)
  /\ op' = [op EXCEPT ![c] = "Delete"]
  /\ key' = [key EXCEPT ![c] = k]
  /\ Finish(c, "ok")
  /\ lastPut' = Without(lastPut, k)
  /\ deleted' = deleted \cup ({k} \cap Keys)
  /\ heap' = HeapWithout(heap, k)
  /\ UNCHANGED <<now, locks, got, watch, fresh, grant, seen, owner, paired, err,
                 recursive>>

\* the DELETE fails ("failed exec"): nothing is removed
DeleteFail(c, k) ==
  /\ pc[c] = "idle"
  /\ op' = [op EXCEPT ![c] = "Delete"]
  /\ key' = [key EXCEPT ![c] = k]
  /\ Finish(c, "ExecErr")
  /\ UNCHANGED <<now, locks, data, got, watch, fresh, grant, seen, owner, paired,
                 lastPut, err, recursive, deleted, heap>>

DataNext ==
  \/ \E c \in Callers, k \in Keys, v \in Values : Store(c, k, v)
  \/ \E c \in Callers, k \in Keys : StoreFail(c, k)
  \/ \E c \in Callers, k \in Keys : Load(c, k)
  \/ \E c \in Callers, k \in Keys : LoadFail(c, k)
  \/ \E c \in Callers, k \in Keys : Delete(c, k)
  \/ \E c \in Callers, k \in Keys : DeleteFail(c, k)
  \/ \E c \in Callers : Return(c)
  \/ Tick

\* the key-value store alone; the lock histories have nothing to record
DataInit == Init /\ watch = "race"
DataSpec == DataInit /\ [][DataNext]_vars

\* ------------------------------------------------------ Storage.Exists/Stat

\* a result that looks only at the error of the check
ExistsOnlyChecksErr(e, exists) == e = "nil"

\* return err == nil && exists
ExistsResult(e, exists) == e = "nil" /\ exists

\* Exists(key): select exists(select 1 from certmagic_data where key = $1)
Exists(c, k) ==
  /\ pc[c] = "idle"
  /\ op' = [op EXCEPT ![c] = "Exists"]
  /\ key' = [key EXCEPT ![c] = k]
  /\ err' = [err EXCEPT ![c] = "nil"]
  /\ Finish(c, IF ExistsResult("nil", k \in DOMAIN data) THEN "true" ELSE "false")
  /\ UNCHANGED <<now, locks, data, got, watch, fresh, grant, seen, owner, paired,
                 lastPut, recursive, deleted, heap>>

\* row.Scan fails: `exists` keeps its zero value and the error is not returned
ExistsFail(c, k) ==
  /\ pc[c] = "idle"
  /\ op' = [op EXCEPT ![c] = "Exists"]
  /\ key' = [key EXCEPT ![c] = k]
  /\ err' = [err EXCEPT ![c] = "ScanErr"]
  /\ Finish(c, IF ExistsResult("ScanErr", FALSE) THEN "true" ELSE "false")
  /\ UNCHANGED <<now, locks, data, got, watch, fresh, grant, seen, owner, paired,
                 lastPut, recursive, deleted, heap>>

\* a LENGTH that counts one byte too many (the length of a text with its terminator)
LengthPlusOne(v) == Len(v) + 1

\* LENGTH (value) of a bytea: its number of bytes
Length(v) == Len(v)

\* certmagic.KeyInfo{Key: key, Modified: modified, Size: size, IsTerminal: true}
KeyInfo(k, modified, size) ==
  [Key |-> k, Modified |-> modified, Size |-> size, IsTerminal |-> TRUE]

\* Stat(key): SELECT LENGTH (value), modified ... WHERE key = $1.  With no row,
\* Scan returns sql.ErrNoRows, which is wrapped like any other failure of Scan.
Stat(c, k) ==
  /\ pc[c] = "idle"
  /\ op' = [op EXCEPT ![c] = "Stat"]
  /\ key' = [key EXCEPT ![c] = k]
  /\ IF k \in DOMAIN data
       THEN /\ got' = [got EXCEPT ![c] = KeyInfo(k, data[k].modified, Length(data[k].value))]
            /\ Finish(c, "ok")
       ELSE got' = got /\ Finish(c, "ScanNoRows")
  /\ UNCHANGED <<now, locks, data, watch, fresh, grant, seen, owner, paired, lastPut,
                 err, recursive, deleted, heap>>

\* the query or the Scan fails otherwise ("failed scan")
StatFail(c, k) ==
  /\ pc[c] = "idle"
  /\ op' = [op EXCEPT ![c] = "Stat"]
  /\ key' = [key EXCEPT ![c] = k]
  /\ Finish(c, "ScanErr")
  /\ UNCHANGED <<now, locks, data, got, watch, fresh, grant, seen, owner, paired,
                 lastPut, err, recursive, deleted, heap>>

KvNext ==
  \/ DataNext
  \/ \E c \in Callers, k \in Keys : Exists(c, k)
  \/ \E c \in Callers, k \in Keys : ExistsFail(c, k)
  \/ \E c \in Callers, k \in Keys : Stat(c, k)
  \/ \E c \in Callers, k \in Keys : StatFail(c, k)

\* the key-value store with its queries
KvSpec == DataInit /\ [][KvNext]_vars

\* the errors a call can return, named by the return statement that builds them
Errors ==
  {"BeginErr", "ScanErr", "Locked", "ExecErr", "CommitErr", "NotFound", "QueryErr",
   "ScanNoRows", "Unsupported"}

\* _, ok := err.(certmagic.ErrNotExist).  ErrNotExist is an interface type that
\* every error value converts to (Load converts the result of fmt.Errorf to
\* it), so its methods are methods of `error`, the conversion keeps the dynamic
\* type, and the assertion holds of every error that is not nil.
IsErrNotExist(r) == r \in Errors

\* ------------------------------------------------------------ Storage.List

\* the characters of the keys and prefixes that List is tried on: a letter, the
\* two wildcards of LIKE and the quote of SQL string constants
Alphabet == {"a", "%", "_", "'"}

ListKeys == UNION {[1..n -> Alphabet] : n \in 1..MaxKeyLen}
Prefixes == UNION {[1..n -> Alphabet] : n \in 0..MaxKeyLen}

\* strings.HasPrefix(s, p): s starts with p, taken literally
HasPrefix(s, p) == Len(p) <= Len(s) /\ SubSeq(s, 1, Len(p)) = p

\* the byte of a character, and the ascending order of keys
Code(ch) ==
  CASE ch = "%" -> 37 [] ch = "'" -> 39 [] ch = "_" -> 95 [] ch = "a" -> 97
    [] ch = "b" -> 98

RECURSIVE Less(_, _)
Less(s, t) ==
  IF t = <<>> THEN FALSE
  ELSE IF s = <<>> THEN TRUE
  ELSE IF Head(s) # Head(t) THEN Code(Head(s)) < Code(Head(t))
  ELSE Less(Tail(s), Tail(t))

\* s LIKE pat: % matches any string, _ any one character, any other character
\* itself (the alphabet has no backslash, the escape character of LIKE)
RECURSIVE Like(_, _)
Like(s, pat) ==
  IF pat = <<>> THEN s = <<>>
  ELSE IF Head(pat) = "%"
    THEN Like(s, Tail(pat)) \/ (s # <<>> /\ Like(Tail(s), pat))
  ELSE IF Head(pat) = "_"
    THEN s # <<>> /\ Like(Tail(s), Tail(pat))
  ELSE s # <<>> /\ Head(s) = Head(pat) /\ Like(Tail(s), Tail(pat))

\* fmt.Sprintf(`... LIKE '%s%%'`, prefix): the text of the string constant, the
\* prefix put between the quotes as it is
Sprintf(prefix) == <<"'">> \o prefix \o <<"%", "'">>

\* the server reads a string constant: t is the text after the opening quote.
\* Two quotes stand for one quote; one quote ends the constant, and the
\* statement is valid only if its text ends there too.
RECURSIVE ScanConstant(_, _)
ScanConstant(t, acc) ==
  IF t = <<>> THEN [ok |-> FALSE, str |-> <<>>]
  ELSE IF Head(t) # "'" THEN ScanConstant(Tail(t), Append(acc, Head(t)))
  ELSE IF Len(t) >= 2 /\ t[2] = "'"
    THEN ScanConstant(SubSeq(t, 3, Len(t)), Append(acc, "'"))
  ELSE [ok |-> Len(t) = 1, str |-> acc]

\* the rows in ascending order of key (a scan of the primary-key index)
RECURSIVE Ascending(_)
Ascending(S) ==
  IF S = {} THEN <<>>
  ELSE LET m == CHOOSE x \in S : \A y \in S \ {x} : Less(x, y)
       IN  <<m>> \o Ascending(S \ {m})

\* the orders in which the query can return the rows of h that are in S: it
\* has no ORDER BY, so they come in the order of the scan the server runs, of
\* the heap or of the index
ScanOrders(h, S) == {SelectSeq(h, LAMBDA j : j \in S), Ascending(S)}

\* a List that runs the query whatever `recursive` is
ListAnyway(h, prefix, rec) ==
  LET q == ScanConstant(Tail(Sprintf(prefix)), <<>>)
      S == {h[i] : i \in {j \in 1..Len(h) : Like(h[j], q.str)}}
  IN  IF q.ok THEN {[res |-> "ok", keys |-> o] : o \in ScanOrders(h, S)}
      ELSE {[res |-> "QueryErr", keys |-> <<>>]}

\* the outcomes of List(prefix, recursive) on the rows h when the backend
\* answers: the Unsupported error, the error of a query the server rejects,
\* or the keys that match the pattern
ListOutcomes(h, prefix, rec) ==
  IF rec THEN {[res |-> "Unsupported", keys |-> <<>>]}
  ELSE LET q == ScanConstant(Tail(Sprintf(prefix)), <<>>)
           S == {h[i] : i \in {j \in 1..Len(h) : Like(h[j], q.str)}}
       IN  IF q.ok THEN {[res |-> "ok", keys |-> o] : o \in ScanOrders(h, S)}
           ELSE {[res |-> "QueryErr", keys |-> <<>>]}

\* List(prefix, recursive)
List(c, prefix, rec) ==
  /\ pc[c] = "idle"
  /\ op' = [op EXCEPT ![c] = "List"]
  /\ key' = [key EXCEPT ![c] = prefix]
  /\ recursive' = [recursive EXCEPT ![c] = rec]
  /\ \E o \in ListOutcomes(heap, prefix, rec) :
       /\ got' = [got EXCEPT ![c] = o.keys]
       /\ Finish(c, o.res)
  /\ UNCHANGED <<now, locks, data, watch, fresh, grant, seen, owner, paired, lastPut,
                 err, deleted, heap>>

\* the query fails in the backend ("failed query", "failed scan"); a recursive
\* List has returned before it sends a query
ListFail(c, prefix) ==
  /\ pc[c] = "idle"
  /\ op' = [op EXCEPT ![c] = "List"]
  /\ key' = [key EXCEPT ![c] = prefix]
  /\ Finish(c, "QueryErr")
  /\ UNCHANGED <<now, locks, data, got, watch, fresh, grant, seen, owner, paired,
                 lastPut, err, recursive, deleted, heap>>

\* the table has room for a row of k
Room(k) == k \in DOMAIN data \/ Cardinality(DOMAIN data) < MaxRows

\* every call is one statement, so one caller's sequences of calls show all
\* that List can be asked of a table
ListNext ==
  \/ \E k \in ListKeys : Room(k) /\ Store(1, k, <<>>)
  \/ \E k \in ListKeys : k \in DOMAIN data /\ Delete(1, k)
  \/ \E prefix \in Prefixes, rec \in BOOLEAN : List(1, prefix, rec)
  \/ \E prefix \in Prefixes : ListFail(1, prefix)
  \/ Return(1)

ListSpec == DataInit /\ [][ListNext]_vars

\* ------------------------------------------- the lock and the store together

\* the record key that is the text of a lock key
Shared == <<"a">>

\* caller 1 takes and releases leases, statement by statement, while caller 2
\* uses the key-value store (and releases leases) and time passes
FrameNext ==
  \/ \E k \in Keys : Begin(1, k)
  \/ \E k \in Keys : BeginFail(1, k)
  \/ Check(1)
  \/ CheckFail(1)
  \/ \E d \in Skews : Stamp(1, d)
  \/ Exec(1)
  \/ ExecFail(1)
  \/ Commit(1)
  \/ CommitFail(1)
  \/ \E c \in Callers, k \in Keys : Unlock(c, k)
  \/ \E c \in Callers, k \in Keys : UnlockFail(c, k)
  \/ Store(2, Shared, <<>>)
  \/ StoreFail(2, Shared)
  \/ Load(2, Shared)
  \/ LoadFail(2, Shared)
  \/ Delete(2, Shared)
  \/ DeleteFail(2, Shared)
  \/ Exists(2, Shared)
  \/ ExistsFail(2, Shared)
  \/ Stat(2, Shared)
  \/ StatFail(2, Shared)
  \/ \E rec \in BOOLEAN : List(2, Shared, rec)
  \/ ListFail(2, Shared)
  \/ \E c \in Callers : Return(c)
  \/ Tick

FrameSpec == DataInit /\ [][FrameNext]_vars

Next == LockNext \/ KvNext \/ ListNext \/ FrameNext
Spec == Init /\ [][Next]_vars

\* ------------------------------------------------------------ properties

Returned(c, o) == pc[c] = "done" /\ op[c] = o

\* the step in which caller c's Lock returns success
Grants(c) == pc[c] = "commit" /\ pc'[c] = "done" /\ res'[c] = "ok"

\* the step that is caller c's call Unlock(k)
Unlocks(c, k) ==
  pc[c] = "idle" /\ pc'[c] = "done" /\ op'[c] = "Unlock" /\ key'[c] = k

\* C1: two concurrent Lock calls on the same key, both begun while the key had
\* no active lease, never both pass the check and both return success.
C1_NeverBothSucceed ==
  \A c1, c2 \in Callers :
    (/\ c1 # c2
     /\ Returned(c1, "Lock") /\ Returned(c2, "Lock")
     /\ key[c1] = key[c2]
     /\ fresh[c1] /\ fresh[c2])
    => ~(res[c1] = "ok" /\ res[c2] = "ok")

\* C2: when all M callers have run Lock(k) concurrently on a key with no active
\* lease and all have returned (none hit by a backend failure), exactly one has
\* succeeded and every other one has failed with Locked.
C2_ExactlyOneWinner ==
  \A k \in Keys :
    (\A c \in Callers :
        /\ Returned(c, "Lock") /\ key[c] = k /\ fresh[c]
        /\ res[c] \in {"ok", "Locked"})
    => Cardinality({c \in Callers : res[c] = "ok"}) = 1

\* C3: as long as callers release only leases they were granted, at most one
\* caller holds an active lease on a key.  The holders of k change only when a
\* Lock(k) returns success, so: no Lock(k) is granted a lease that is active
\* while another caller holds a lease on k that is still active and unreleased.
C3_AtMostOneHolder ==
  [][paired =>
       \A c \in Callers :
         (Grants(c) /\ expires[c] > now)
         => ~(/\ key[c] \in DOMAIN locks
              /\ locks[key[c]] > now
              /\ owner[key[c]] \notin {0, c})]_vars

\* C4: a Lock(k) begun after a successful Lock(k), before the lease duration
\* has elapsed since that grant and with no Unlock(k) in between, does not
\* succeed (it fails with Locked, unless the backend itself fails).
C4_SecondAcquireFails ==
  \A c \in Callers :
    (Returned(c, "Lock") /\ seen[c] = "locked") => res[c] # "ok"

\* C5: the lease a Lock stores expires at the backend time of the grant plus
\* the lease duration, whatever the caller's own clock says.
C5_ExpiresByBackendClock ==
  [][\A c \in Callers :
       (watch = "promise" /\ Grants(c))
       => locks'[key[c]] = stampAt[c] + LockTimeout]_vars

\* C6: a Lock(k) begun once the lease duration of the last granted, never
\* released lease on k has elapsed is not turned away as Locked.
C6_ExpiredLeaseIsTaken ==
  \A c \in Callers :
    (Returned(c, "Lock") /\ seen[c] = "expired") => res[c] # "Locked"

\* C7: a Lock(k) that follows an Unlock(k) is not turned away as Locked, at
\* whatever time it comes: it does not wait for the released lease to expire.
C7_AcquireAfterRelease ==
  \A c \in Callers :
    (Returned(c, "Lock") /\ seen[c] = "released") => res[c] # "Locked"

\* a Lock granted right after an Unlock, at the time of the very first grant
C7_Witness ==
  \E c \in Callers :
    Returned(c, "Lock") /\ seen[c] = "released" /\ res[c] = "ok" /\ now = 0

\* C8: Unlock(k) checks neither owner nor expiry.  It is never refused; when
\* it returns success the row of k is gone, whoever was granted it and
\* whether or not it had expired, and every other row is as before (so the
\* table is unchanged when k had no row); when it fails nothing changes.
C8_ReleaseUnconditional ==
  [][\A c \in Callers, k \in Keys :
       Unlocks(c, k)
       => /\ res'[c] \in {"ok", "ExecErr"}
          /\ res'[c] = "ok" =>
               /\ k \notin DOMAIN locks'
               /\ DOMAIN locks' = (DOMAIN locks) \ {k}
               /\ \A j \in DOMAIN locks' : locks'[j] = locks[j]
          /\ res'[c] # "ok" => locks' = locks]_vars

\* an Unlock that removed the unexpired lease of another caller
C8_Witness ==
  \E c \in Callers :
    /\ Returned(c, "Unlock") /\ res[c] = "ok"
    /\ seen[c] = "active"
    /\ owner[key[c]] \notin {0, c}
    /\ key[c] \notin DOMAIN locks

Loads(c, k) ==
  pc[c] = "idle" /\ pc'[c] = "done" /\ op'[c] = "Load" /\ key'[c] = k

\* C10: a Load(k) that follows a successful Store(k, v), with no Store or
\* Delete of k in between, does not report the key missing, and when it
\* succeeds it returns exactly v, the empty value included and whatever the
\* key held before.
C10_PutGetRoundTrip ==
  [][\A c \in Callers, k \in Keys :
       (Loads(c, k) /\ k \in DOMAIN lastPut)
       => /\ res'[c] \in {"ok", "QueryErr"}
          /\ res'[c] = "ok" => got'[c] = lastPut[k].value]_vars

\* a Load that read back the empty value a Store had put over an older row
C10_Witness ==
  \E c \in Callers :
    /\ Returned(c, "Load") /\ res[c] = "ok"
    /\ key[c] \in DOMAIN lastPut
    /\ lastPut[key[c]].over
    /\ lastPut[key[c]].value = <<>>
    /\ got[c] = <<>>
    /\ data[key[c]].value = <<>>

\* C11: a Load(k) on a key with no record signals NotFound; what Load returns
\* tests as NotFound (certmagic.ErrNotExist) only when it is the NotFound error
\* of a key that has no record, never when the backend failed.
C11_NotFoundIsDistinct ==
  [][\A c \in Callers, k \in Keys :
       Loads(c, k)
       => /\ k \notin DOMAIN data => res'[c] \in {"NotFound", "QueryErr"}
          /\ IsErrNotExist(res'[c]) => (res'[c] = "NotFound" /\ k \notin DOMAIN data)]_vars

\* the step that is caller c's call Delete(k)
Deletes(c, k) ==
  pc[c] = "idle" /\ pc'[c] = "done" /\ op'[c] = "Delete" /\ key'[c] = k

\* C12: Delete(k) returns success or a backend failure; on success k has no
\* record and every other record is as before (so nothing changes when k had
\* none), on failure nothing changes; and a Load(k) that follows a successful
\* Delete(k), with no Store of k in between, reports the key missing.
C12_DeleteThenGet ==
  [][\A c \in Callers, k \in Keys :
       /\ Deletes(c, k)
          => /\ res'[c] \in {"ok", "ExecErr"}
             /\ res'[c] = "ok" =>
                  /\ DOMAIN data' = (DOMAIN data) \ {k}
                  /\ \A j \in DOMAIN data' : data'[j] = data[j]
             /\ res'[c] # "ok" => data' = data
       /\ (Loads(c, k) /\ k \in deleted)
          => res'[c] \in {"NotFound", "QueryErr"}]_vars

\* a Load that misses a key deleted twice over, while the other key keeps its record
C12_Witness ==
  \E c, d \in Callers :
    /\ Returned(c, "Load") /\ res[c] = "NotFound" /\ key[c] \in deleted
    /\ Returned(d, "Delete") /\ res[d] = "ok" /\ key[d] = key[c]
    /\ \E j \in DOMAIN data : j # key[c]

\* the step that is caller c's call Exists(k)
Existss(c, k) ==
  pc[c] = "idle" /\ pc'[c] = "done" /\ op'[c] = "Exists" /\ key'[c] = k

\* C13: Exists(k) returns true or false, never an error, and it returns true
\* exactly when the check did not fail and the last successful write of k was
\* a Store: false after a Delete, for a key never written, and when the check
\* itself failed.
C13_ExistsExact ==
  [][\A c \in Callers, k \in Keys :
       Existss(c, k)
       => /\ res'[c] \in {"true", "false"}
          /\ res'[c] = "true" <=> (err'[c] = "nil" /\ k \in DOMAIN lastPut)]_vars

\* an Exists that answered false for a stored key because its check failed
C13_Witness ==
  \E c \in Callers :
    /\ Returned(c, "Exists") /\ res[c] = "false" /\ err[c] # "nil"
    /\ key[c] \in DOMAIN lastPut /\ key[c] \in DOMAIN data

\* the step that is caller c's call List(prefix, rec)
Lists(c, prefix, rec) ==
  /\ pc[c] = "idle" /\ pc'[c] = "done" /\ op'[c] = "List"
  /\ key'[c] = prefix /\ recursive'[c] = rec

\* C14: the keys a List(p, false) returns are exactly the stored keys that
\* start with p taken literally, whatever characters p and the keys contain.
C14_ListLiteralPrefix ==
  [][\A c \in Callers, p \in Prefixes :
       (Lists(c, p, FALSE) /\ res'[c] = "ok")
       => {got'[c][i] : i \in 1..Len(got'[c])}
            = {k \in DOMAIN data : HasPrefix(k, p)}]_vars

\* C15: the keys a List(p, false) returns are in ascending order of key, no
\* key twice, however the rows came to be stored.
C15_ListAscending ==
  [][\A c \in Callers, p \in Prefixes :
       (Lists(c, p, FALSE) /\ res'[c] = "ok")
       => \A i \in 1..(Len(got'[c]) - 1) : Less(got'[c][i], got'[c][i + 1])]_vars

Stats(c, k) ==
  pc[c] = "idle" /\ pc'[c] = "done" /\ op'[c] = "Stat" /\ key'[c] = k

\* C17: a Stat(k) on a key that holds a record does not miss it, and when it
\* succeeds it returns the key k, the number of bytes of the value of the last
\* successful Store of k, the time of that Store, and IsTerminal = true.
C17_StatOfRecord ==
  [][\A c \in Callers, k \in Keys :
       (Stats(c, k) /\ k \in DOMAIN lastPut)
       => /\ res'[c] \in {"ok", "ScanErr"}
          /\ res'[c] = "ok" =>
               got'[c] = [Key |-> k, Size |-> Len(lastPut[k].value),
                          Modified |-> lastPut[k].at, IsTerminal |-> TRUE]]_vars

\* a Stat of a record that was overwritten, at a later time, by a longest value
C17_Witness ==
  \E c \in Callers :
    /\ Returned(c, "Stat") /\ res[c] = "ok"
    /\ key[c] \in DOMAIN lastPut /\ lastPut[key[c]].over
    /\ got[c].Size = MaxValLen /\ got[c].Modified = MaxTime
    /\ \E j \in DOMAIN data : data[j].modified < MaxTime /\ data[j].value = <<>>

\* C18: a Stat(k) on a key that holds no record fails with the NotFound error
\* that Load returns for such a key (or with the failure of the backend, when
\* the backend fails), not with an error made like a backend failure.
C18_StatNotFound ==
  [][\A c \in Callers, k \in Keys :
       (Stats(c, k) /\ k \notin DOMAIN data)
       => res'[c] \in {"NotFound", "ScanErr"}]_vars

\* the step that is caller c's call Store(k, _)
Stores(c, k) ==
  pc[c] = "idle" /\ pc'[c] = "done" /\ op'[c] = "Store" /\ key'[c] = k

\* C19: Store is one atomic upsert.  However the Store and Load calls of the
\* callers interleave: a Store(k, v) returns success or a backend failure,
\* whether or not k has a record; on success k has one record, with the whole
\* of v and modified set by this write, and no other record changes; on
\* failure nothing changes; every record holds the value and the modified time
\* of one and the same Store, the last one; and a Load(k) returns the whole
\* value of one Store, never a mix.
C19_PutAtomic ==
  [][/\ \A c \in Callers, k \in Keys :
          /\ Stores(c, k)
             => /\ res'[c] \in {"ok", "ExecErr"}
                /\ res'[c] = "ok" =>
                     /\ DOMAIN data' = (DOMAIN data) \cup {k}
                     /\ data'[k] = [value |-> lastPut'[k].value, modified |-> now]
                     /\ \A j \in (DOMAIN data) \ {k} : data'[j] = data[j]
                /\ res'[c] # "ok" => data' = data /\ lastPut' = lastPut
          /\ (Loads(c, k) /\ res'[c] = "ok") => got'[c] = lastPut[k].value
     /\ DOMAIN data' = DOMAIN lastPut'
     /\ \A k \in DOMAIN data' :
          data'[k] = [value |-> lastPut'[k].value, modified |-> lastPut'[k].at]]_vars

\* one caller has stored a value over the record of another Store, at a later
\* time, while the other caller's Load returns that value
C19_Witness ==
  \E c, d \in Callers :
    /\ Returned(c, "Store") /\ res[c] = "ok"
    /\ Returned(d, "Load") /\ res[d] = "ok" /\ key[d] = key[c]
    /\ lastPut[key[c]].over /\ lastPut[key[c]].at > 0
    /\ got[d] = lastPut[key[c]].value /\ got[d] # <<>>

\* the row of k in table tbl: a sequence with the row, empty when k has none
RowOf(tbl, k) == IF k \in DOMAIN tbl THEN <<tbl[k]>> ELSE <<>>

\* C20: the lease row of a key k changes only in the step in which a Lock(k)
\* returns success or an Unlock(k) returns success: not in a step of a Lock or
\* an Unlock of another key, of a failing Lock, of any operation of the
\* key-value store (also on the record key that is the text of k), nor when
\* time passes its expires; and a record of the data table changes only in a
\* successful Store or Delete, never in a step of Lock or Unlock.
C20_LeaseFrame ==
  [][/\ \A k \in Keys :
          RowOf(locks, k) # RowOf(locks', k)
          => \E c \in Callers :
               \/ Grants(c) /\ key[c] = k
               \/ Unlocks(c, k) /\ res'[c] = "ok"
     /\ (data' # data \/ heap' # heap)
          => \E c \in Callers :
               /\ pc[c] = "idle" /\ pc'[c] = "done" /\ res'[c] = "ok"
               /\ op'[c] \in {"Store", "Delete"}]_vars

\* the lease of "a" has lapsed and its row is still there, after caller 2 has
\* stored and then deleted the record "a" and while caller 1 has taken the
\* lease of the other key
C20_Witness ==
  /\ Shared \in DOMAIN locks /\ locks[Shared] < now
  /\ Returned(2, "Delete") /\ res[2] = "ok" /\ Shared \in deleted
  /\ Returned(1, "Lock") /\ res[1] = "ok" /\ key[1] # Shared /\ key[1] \in DOMAIN locks

====
